---- MODULE Spec2Model ----
(***************************************************************************)
(* A model of tf_keras_vis.scorecam.Scorecam.__call__ (Score-CAM and       *)
(* Faster Score-CAM) and of the score functions of tf_keras_vis.utils.     *)
(* scores (InactiveScore, BinaryScore, CategoricalScore).                  *)
(*                                                                         *)
(* Tensors are flat row-major sequences together with their shape, so that *)
(* np.reshape keeps the data and changes only the shape, while transpose,  *)
(* tile, gather and the reductions move or combine elements by index       *)
(* arithmetic.  Real values are integers (every value used is integral, so *)
(* 1.0 - val and the sums are exact); a mean is kept exact as a numerator  *)
(* over a known denominator.                                               *)
(***************************************************************************)
EXTENDS Integers, Sequences, FiniteSets, TLC

----------------------------------------------------------------------------
(* Bounds of the model.                                                    *)

\* largest batch size of the output a score is called on
MaxBatch == 3
\* largest batch size of a seed input
MaxSeedBatch == 2
\* largest number of configured target values / indices of a score
MaxTargets == 3
\* largest channel count of a score's output (size of its last axis)
MaxClasses == 2
\* largest size of the middle axis of a rank-3 score output
MaxMid == 2
\* largest element of a score's output
MaxVal == 1
\* largest channel count K of the penultimate activation tensor
MaxK == 3
\* largest positive max_N a caller passes
MaxN == 2
\* largest value of the TF_KERAS_VIS_MAX_STEPS environment variable
MaxStepsCap == 2
\* number of spatial positions of the penultimate activation tensor
NumPos == 2
\* largest divisor used to make activation levels tie
MaxTieDiv == 2
\* number of units of each output head of the full model
OutDim == 2
\* largest number of output heads of the full model
MaxHeads == 2
\* largest number of inputs of the full model
MaxInputs == 2
\* largest seed of the family of full models
MaxPredSeed == 1

----------------------------------------------------------------------------
(* Sequences and tensors.                                                  *)

Min(a, b) == IF a < b THEN a ELSE b

Max(a, b) == IF a > b THEN a ELSE b

RECURSIVE SumSeq(_)
SumSeq(s) == IF s = <<>> THEN 0 ELSE Head(s) + SumSeq(Tail(s))

RECURSIVE MaxSeq(_)
MaxSeq(s) == IF Len(s) = 1 THEN s[1] ELSE Max(Head(s), MaxSeq(Tail(s)))

RECURSIVE Product(_)
Product(s) == IF s = <<>> THEN 1 ELSE Head(s) * Product(Tail(s))

RECURSIVE Flatten(_)
Flatten(ss) == IF ss = <<>> THEN <<>> ELSE Head(ss) \o Flatten(Tail(ss))

\* list * n of Python: the list repeated n times
Repeat(s, n) == [i \in 1..(Len(s) * n) |-> s[((i - 1) % Len(s)) + 1]]

\* zip(a, b) of Python stops at the shorter of the two
ZipLen(a, b) == Min(Len(a), Len(b))

\* the sequence s itself; TLC evaluates its elements once instead of at every use
Stored(s) == s \o <<>>

Tensor(shape, data) == [shape |-> shape, data |-> Stored(data)]

Ndim(t) == Len(t.shape)

\* np.reshape / tf.reshape: the row-major data is kept, the shape replaced
Reshape(t, shape) == Tensor(shape, t.data)

----------------------------------------------------------------------------
(* Outcomes of a call: a returned value or a raised exception.             *)

Return(v) == [status |-> "ok", value |-> v]

Raise(exc, msg) == [status |-> exc, value |-> msg]

\* an exact mean: the sum of the elements over their number
Mean(s) == [num |-> SumSeq(s), den |-> Len(s)]

----------------------------------------------------------------------------
(* tf_keras_vis/utils/scores.py                                            *)
(* A call of a score yields the instance as the call leaves it (self) and  *)
(* the outcome of the call (ret).                                          *)

\* a variant that returns the output as it is
InactiveScoreCallKeepsOutput(self, output) ==
    [self |-> self, ret |-> [status |-> "ok", value |-> output]]

InactiveScoreCall(self, output) ==
    [self |-> self,
     ret  |-> Return(Tensor(output.shape, [i \in 1..Len(output.data) |-> output.data[i] * 0]))]

\* a variant that never broadcasts a single target value
BinaryBroadcastNever(target_values, n) == target_values

BinaryBroadcast(target_values, n) ==
    IF Len(target_values) = 1 /\ Len(target_values) < n
    THEN Repeat(target_values, n)
    ELSE target_values

\* a variant that stores the broadcast target values in the instance
BinaryScoreCallStoresBroadcast(self, output) ==
    IF Ndim(output) # 1 /\ ~(Ndim(output) = 2 /\ output.shape[2] = 1)
    THEN [self |-> self,
          ret  |-> [status |-> "ValueError", value |-> "output shape must be (batch_size, 1)"]]
    ELSE LET target_values == BinaryBroadcast(self.target_values, Len(output.data))
         IN  [self |-> [self EXCEPT !.target_values = target_values],
              ret  |-> [status |-> "ok",
                        value  |-> [i \in 1..ZipLen(output.data, target_values) |->
                                      IF target_values[i] THEN output.data[i]
                                      ELSE 1 - output.data[i]]]]

BinaryScoreCall(self, output) ==
    IF Ndim(output) # 1 /\ ~(Ndim(output) = 2 /\ output.shape[2] = 1)
    THEN [self |-> self,
          ret  |-> Raise("ValueError", "output shape must be (batch_size, 1)")]
    ELSE LET out == Reshape(output, <<Len(output.data)>>)
             target_values == BinaryBroadcast(self.target_values, out.shape[1])
             score == [i \in 1..ZipLen(out.data, target_values) |->
                          IF target_values[i] THEN out.data[i] ELSE 1 - out.data[i]]
         IN  [self |-> self, ret |-> Return(score)]

CategoricalBroadcast(indices, n) ==
    IF Len(indices) = 1 /\ Len(indices) < n
    THEN Repeat(indices, n)
    ELSE indices

\* a variant that reads batch element 0 whatever i is
SelectLastOfFirstElement(output, i, index) ==
    LET channels == output.shape[Ndim(output)]
        inner == Len(output.data) \div (output.shape[1] * channels)
    IN  [m \in 1..inner |-> output.data[(m - 1) * channels + index + 1]]

\* the elements of output[i, ..., index] (i and index counted from 0), in row-major order
SelectLast(output, i, index) ==
    LET channels == output.shape[Ndim(output)]
        inner == Len(output.data) \div (output.shape[1] * channels)
    IN  [m \in 1..inner |-> output.data[((i * inner) + (m - 1)) * channels + index + 1]]

\* a variant that accepts an output of rank 1
CategoricalScoreCallRankOne(self, output) ==
    IF Ndim(output) < 1
    THEN [self |-> self,
          ret  |-> Raise("ValueError", "output ndim must be 2 or more")]
    ELSE IF output.shape[Ndim(output)] <= MaxSeq(self.indices)
    THEN [self |-> self,
          ret  |-> Raise("ValueError", "Invalid index value")]
    ELSE LET indices == CategoricalBroadcast(self.indices, output.shape[1])
         IN  IF Len(indices) > output.shape[1]
             THEN [self |-> self,
                   ret  |-> Raise("IndexError", "index is out of bounds for axis 0")]
             ELSE LET score == [i \in 1..Len(indices) |-> SelectLast(output, i - 1, indices[i])]
                  IN  [self |-> self,
                       ret  |-> Return([i \in 1..Len(score) |-> Mean(score[i])])]

CategoricalScoreCall(self, output) ==
    IF Ndim(output) < 2
    THEN [self |-> self,
          ret  |-> Raise("ValueError", "output ndim must be 2 or more")]
    ELSE IF output.shape[Ndim(output)] <= MaxSeq(self.indices)
    THEN [self |-> self,
          ret  |-> Raise("ValueError", "Invalid index value")]
    ELSE LET indices == CategoricalBroadcast(self.indices, output.shape[1])
         IN  IF Len(indices) > output.shape[1]
             THEN [self |-> self,
                   ret  |-> Raise("IndexError", "index is out of bounds for axis 0")]
             ELSE LET score == [i \in 1..Len(indices) |-> SelectLast(output, i - 1, indices[i])]
                  IN  [self |-> self,
                       ret  |-> Return([i \in 1..Len(score) |-> Mean(score[i])])]

ScoreCall(self, output) ==
    CASE self.cls = "InactiveScore"    -> InactiveScoreCall(self, output)
      [] self.cls = "BinaryScore"      -> BinaryScoreCall(self, output)
      [] self.cls = "CategoricalScore" -> CategoricalScoreCall(self, output)

----------------------------------------------------------------------------
(* The inputs of the score functions.                                      *)

SeqsUpTo(S, n) == UNION {[1..k -> S] : k \in 1..n}

InactiveScore == [cls |-> "InactiveScore"]

BinaryScore(target_values) == [cls |-> "BinaryScore", target_values |-> target_values]

CategoricalScore(indices) == [cls |-> "CategoricalScore", indices |-> indices]

\* the instances a caller can construct: non-empty lists without None
ScoreInstances ==
    {InactiveScore}
      \cup {BinaryScore(t) : t \in SeqsUpTo(BOOLEAN, MaxTargets)}
      \cup {CategoricalScore(ix) : ix \in SeqsUpTo(0..MaxClasses, MaxTargets)}

\* outputs whose elements are all different: element k is base + k
Ramp(shape, base) == Tensor(shape, [k \in 1..Product(shape) |-> base + k])

BinaryOutputs ==
    {Tensor(<<Len(d)>>, d) : d \in SeqsUpTo(0..MaxVal, MaxBatch)}
      \cup {Tensor(<<Len(d), 1>>, d) : d \in SeqsUpTo(0..MaxVal, MaxBatch)}
      \cup {Ramp(<<n, 2>>, b) : n \in 1..MaxBatch, b \in 0..MaxVal}

CategoricalOutputs ==
    {Ramp(<<n>>, b) : n \in 1..MaxBatch, b \in 0..MaxVal}
      \cup {Ramp(<<n, c>>, b) : n \in 1..MaxBatch, c \in 1..MaxClasses, b \in 0..MaxVal}
      \cup {Ramp(<<n, m, c>>, b) :
               n \in 1..MaxBatch, m \in 1..MaxMid, c \in 1..MaxClasses, b \in 0..MaxVal}

----------------------------------------------------------------------------
(* Collaborators of the Score-CAM engine.                                  *)

\* utils.get_num_of_steps_allowed: the requested number of steps, clamped
\* to TF_KERAS_VIS_MAX_STEPS when the environment sets it
get_num_of_steps_allowed(steps, env) ==
    IF env.max_steps_set THEN Min(steps, env.max_steps) ELSE steps

\* utils.listify of the score argument, one score per output of the model
get_scores_for_multiple_outputs(model, score) ==
    IF Len(score) # model.outputs
    THEN Raise("ValueError", "The model has multiple outputs, so you must pass a list of scores")
    ELSE Return(score)

\* utils.listify of the seed_input argument, one seed input per input of the model
get_seed_inputs_for_multiple_inputs(model, seed_input) ==
    IF seed_input.count # model.inputs
    THEN Raise("ValueError", "The model has multiple inputs, so you must pass a list of seed inputs")
    ELSE Return([j \in 1..seed_input.count |-> [input |-> j, batch |-> seed_input.batch]])

\* the activation of channel c (from 1) of batch element b at position p: the
\* sub-model cut at the penultimate layer, applied to the seed inputs
Activation(seed_input, K, b, p, c) ==
    (((c - 1 + seed_input.rot[b]) % K) \div seed_input.tie) * (p - 1)

\* the full model: the prediction of head h for one masked copy of the seed
\* inputs, a vector of OutDim values that differs from copy to copy
ModelPredict(model, h, row) ==
    [o \in 1..OutDim |->
        (model.predSeed[h] + 1) * (100 * row.mask.batch + 10 * row.seed + row.mask.channel) + o]

\* utils.standardize, kept symbolic: the map is marked as standardized
standardize(map) == [map EXCEPT !.standardized = TRUE]

\* scipy's zoom to the spatial shape of seed input j, kept symbolic
zoom(map, j) == [map EXCEPT !.zoomed_to = j]

----------------------------------------------------------------------------
(* tf_keras_vis/scorecam.py: the steps of Scorecam.__call__                *)

\* a variant that takes every max_N below 1 for the default
ResolveMaxNDefaultBelowOne(max_N, K, env) ==
    IF max_N.isNone \/ max_N.value <= 0
    THEN Return(get_num_of_steps_allowed(K, env))
    ELSE Return(get_num_of_steps_allowed(max_N.value, env))

\* a variant that takes only None for the default
ResolveMaxNOnlyNone(max_N, K, env) ==
    IF max_N.isNone
    THEN Return(get_num_of_steps_allowed(K, env))
    ELSE IF max_N.value = 0
    THEN Raise("ValueError", "max_N can't be set 0, must be None, -1 or 1 or more.")
    ELSE Return(get_num_of_steps_allowed(max_N.value, env))

\* lines 112-117: the channel cap
ResolveMaxN(max_N, K, env) ==
    IF max_N.isNone \/ max_N.value = -1
    THEN Return(get_num_of_steps_allowed(K, env))
    ELSE IF max_N.value = 0
    THEN Raise("ValueError", "max_N can't be set 0, must be None, -1 or 1 or more.")
    ELSE Return(get_num_of_steps_allowed(max_N.value, env))

\* model(seed_inputs): a tensor of shape (batch, positions, K)
PenultimateOutput(model, seed_input) ==
    Tensor(<<seed_input.batch, NumPos, model.K>>,
           [k \in 1..(seed_input.batch * NumPos * model.K) |->
               Activation(seed_input, model.K,
                          ((k - 1) \div (NumPos * model.K)) + 1,
                          (((k - 1) \div model.K) % NumPos) + 1,
                          ((k - 1) % model.K) + 1)])

\* element (b, p, c), each counted from 1, of a tensor of shape (batch, positions, channels)
At3(t, b, p, c) == t.data[((b - 1) * t.shape[2] + (p - 1)) * t.shape[3] + c]

\* tf.math.reduce_std over the spatial axis, keepdims: shape (batch, 1, K).  The
\* standard deviation is kept as n * sum(x^2) - sum(x)^2, which orders the channels
\* as the standard deviation does
reduce_std(t) ==
    LET B == t.shape[1]
        P == t.shape[2]
        K == t.shape[3]
        xs(b, c) == [p \in 1..P |-> At3(t, b, p, c)]
        sq(b, c) == [p \in 1..P |-> At3(t, b, p, c) * At3(t, b, p, c)]
    IN  Tensor(<<B, 1, K>>,
               [k \in 1..(B * K) |->
                   LET b == ((k - 1) \div K) + 1
                       c == ((k - 1) % K) + 1
                   IN  P * SumSeq(sq(b, c)) - SumSeq(xs(b, c)) * SumSeq(xs(b, c))])

\* the position of the largest value outside taken, the lowest index among equals
ArgMax(vals, taken) ==
    CHOOSE i \in (DOMAIN vals) \ taken :
        \A j \in (DOMAIN vals) \ taken : vals[i] > vals[j] \/ (vals[i] = vals[j] /\ i <= j)

RECURSIVE TopKFrom(_, _, _)
TopKFrom(vals, k, taken) ==
    IF k = 0 THEN <<>>
    ELSE LET i == ArgMax(vals, taken)
         IN  <<i - 1>> \o TopKFrom(vals, k - 1, taken \cup {i})

\* tf.math.top_k along the last axis of a tensor of shape (batch, 1, K): the
\* indices (from 0) of the k largest entries of each batch element, largest first
top_k(t, k) ==
    LET B == t.shape[1]
        K == t.shape[3]
        row(b) == [c \in 1..K |-> t.data[(b - 1) * K + c]]
    IN  Tensor(<<B, 1, k>>, Flatten([b \in 1..B |-> TopKFrom(row(b), k, {})]))

RECURSIVE UniqueFrom(_, _)
UniqueFrom(s, seen) ==
    IF s = <<>> THEN <<>>
    ELSE IF Head(s) \in seen THEN UniqueFrom(Tail(s), seen)
    ELSE <<Head(s)>> \o UniqueFrom(Tail(s), seen \cup {Head(s)})

\* a variant that keeps the repeated elements
uniqueKeepsRepeats(s) == s

\* tf.unique: the distinct elements in the order of their first occurrence
unique(s) == UniqueFrom(s, {})

\* tf.gather along the last axis
gather(t, indices) ==
    LET B == t.shape[1]
        P == t.shape[2]
        n == Len(indices)
    IN  Tensor(<<B, P, n>>,
               [k \in 1..(B * P * n) |->
                   At3(t, ((k - 1) \div (P * n)) + 1,
                          (((k - 1) \div n) % P) + 1,
                          indices[((k - 1) % n) + 1] + 1)])

\* lines 118-126: the channels kept.  top_k_indices names, for each channel of the
\* tensor that goes on, the channel of the sub-model's output it is
SelectChannels(penultimate_output, max_N) ==
    LET K == penultimate_output.shape[3]
    IN  IF max_N < K
        THEN IF max_N < 0
             THEN Raise("InvalidArgumentError", "Need k >= 0")
             ELSE LET activation_map_std == reduce_std(penultimate_output)
                      top_k_indices == unique(Reshape(top_k(activation_map_std, max_N),
                                                      <<penultimate_output.shape[1] * max_N>>).data)
                  IN  Return([top_k_indices |-> top_k_indices,
                              penultimate_output |-> gather(penultimate_output, top_k_indices)])
        ELSE Return([top_k_indices |-> [c \in 1..K |-> c - 1],
                     penultimate_output |-> penultimate_output])

\* lines 128-148: the activation maps, upsampled to the seed input and normalized,
\* of shape (batch, spatial..., channels).  One element stands for the spatial block
\* of one batch element and one channel and names that batch element and channel
NormalizedActivationMaps(B, top_k_indices) ==
    LET n == Len(top_k_indices)
    IN  Tensor(<<B, n>>,
               [k \in 1..(B * n) |->
                   [batch |-> ((k - 1) \div n) + 1, channel |-> top_k_indices[((k - 1) % n) + 1]]])

\* np.transpose(activation_map, (last,) + the other axes): the channel axis first
transpose(t) ==
    LET r == t.shape[1]
        n == t.shape[2]
    IN  Tensor(<<n, r>>,
               [k \in 1..(r * n) |-> t.data[((k - 1) % r) * n + ((k - 1) \div r) + 1]])

\* np.tile(seed_input, (channels, 1, ...)): shape (channels, batch, ...)
MaskTemplate(B, channels) == Tensor(<<channels, B>>, Repeat([b \in 1..B |-> b], channels))

\* lines 150-169: the masked copies of one seed input, flattened to (channels * batch, ...)
MaskedSeedInput(B, top_k_indices) ==
    LET channels == Len(top_k_indices)
        mask_template == MaskTemplate(B, channels)
        mask == transpose(NormalizedActivationMaps(B, top_k_indices))
        masked == Tensor(<<channels, B>>,
                         [k \in 1..(channels * B) |->
                             [seed |-> mask_template.data[k], mask |-> mask.data[k]]])
    IN  Reshape(masked, <<channels * B>>)

\* lines 172-174: self.model.predict on the masked batch, one tensor per output head,
\* reshaped to (channels, -1, units)
Predict(model, masked_seed_inputs, channels) ==
    LET rows == masked_seed_inputs[1].data
    IN  Stored([h \in 1..model.outputs |->
                   Reshape(Tensor(<<Len(rows), OutDim>>,
                                  Flatten([r \in 1..Len(rows) |->
                                              ModelPredict(model, h, rows[r])])),
                           <<channels, Len(rows) \div channels, OutDim>>)])

\* prediction[c] for c from 1: a tensor of shape (-1, units)
ChannelSlice(prediction, c) ==
    LET size == prediction.shape[2] * prediction.shape[3]
    IN  Tensor(<<prediction.shape[2], prediction.shape[3]>>,
               SubSeq(prediction.data, (c - 1) * size + 1, c * size))

\* the value a score returned, as the flat data np.array makes of it
AsArray(score, value) ==
    CASE score.cls = "InactiveScore"    -> value.data
      [] score.cls = "BinaryScore"      -> value
      [] score.cls = "CategoricalScore" -> [i \in 1..Len(value) |-> value[i].num \div value[i].den]

\* lines 177-180 for one output head: the scores of every channel slice, as an array
\* reshaped to (batch, -1, channels) and averaged over its middle axis.  A weight is
\* kept in units of 1/OutDim, which makes the mean over the units of a head exact
HeadWeights(score, prediction, B, channels) ==
    LET outcomes ==
            Stored([c \in 1..channels |-> ScoreCall(score, ChannelSlice(prediction, c)).ret])
        failed == {c \in 1..channels : outcomes[c].status # "ok"}
    IN  IF failed # {}
        THEN outcomes[CHOOSE c \in failed : \A d \in failed : c <= d]
        ELSE LET w == Flatten([c \in 1..channels |-> AsArray(score, outcomes[c].value)])
             IN  IF Len(w) % (B * channels) # 0
                 THEN Raise("ValueError", "cannot reshape array")
                 ELSE LET mid == Len(w) \div (B * channels)
                      IN  Return(Tensor(<<B, channels>>,
                                 [k \in 1..(B * channels) |->
                                     LET b == ((k - 1) \div channels) + 1
                                         c == ((k - 1) % channels) + 1
                                     IN  SumSeq([m \in 1..mid |->
                                                    w[((b - 1) * mid + (m - 1)) * channels + c]])
                                           * (OutDim \div mid)]))

\* lines 177-182: the weights of all heads, summed over the heads
Weights(scores, preds, B, channels) ==
    LET heads ==
            Stored([h \in 1..Len(scores) |-> HeadWeights(scores[h], preds[h], B, channels)])
        failed == {h \in 1..Len(scores) : heads[h].status # "ok"}
    IN  IF failed # {}
        THEN heads[CHOOSE h \in failed : \A g \in failed : h <= g]
        ELSE Return(Tensor(<<B, channels>>,
                           [k \in 1..(B * channels) |->
                               SumSeq([h \in 1..Len(scores) |-> heads[h].value.data[k]])]))

\* line 185: K.batch_dot of (batch, positions, channels) with (batch, channels)
batch_dot(penultimate_output, weights) ==
    LET B == penultimate_output.shape[1]
        P == penultimate_output.shape[2]
        n == penultimate_output.shape[3]
    IN  Tensor(<<B, P>>,
               [k \in 1..(B * P) |->
                   LET b == ((k - 1) \div P) + 1
                       p == ((k - 1) % P) + 1
                   IN  SumSeq([c \in 1..n |->
                                  At3(penultimate_output, b, p, c)
                                    * weights.data[(b - 1) * n + c]])])

\* lines 186-187: the activation modifier, K.relu by default
ActivationModifier(activation_modifier, cam) ==
    IF activation_modifier = "relu"
    THEN Tensor(cam.shape, [k \in 1..Len(cam.data) |-> Max(cam.data[k], 0)])
    ELSE cam

\* a variant that unwraps the list whenever the model has one input
FinishUnwrapsOneInput(model, seed_input, seed_inputs, cam, expand_cam, standardize_cam) ==
    LET map == [cam |-> cam, zoomed_to |-> 0, standardized |-> FALSE]
    IN  IF ~expand_cam
        THEN [value |-> [type |-> "ndarray",
                         items |-> <<IF standardize_cam THEN standardize(map) ELSE map>>],
              zoomed |-> FALSE]
        ELSE LET zoomed == [j \in 1..Len(seed_inputs) |-> zoom(map, j)]
                 cams == IF standardize_cam
                         THEN [j \in 1..Len(zoomed) |-> standardize(zoomed[j])]
                         ELSE zoomed
             IN  IF model.inputs = 1
                 THEN [value |-> [type |-> "ndarray", items |-> <<cams[1]>>], zoomed |-> TRUE]
                 ELSE [value |-> [type |-> "list", items |-> cams], zoomed |-> TRUE]

\* lines 189-200: what the call returns, and whether it zoomed the map
Finish(model, seed_input, seed_inputs, cam, expand_cam, standardize_cam) ==
    LET map == [cam |-> cam, zoomed_to |-> 0, standardized |-> FALSE]
    IN  IF ~expand_cam
        THEN [value |-> [type |-> "ndarray",
                         items |-> <<IF standardize_cam THEN standardize(map) ELSE map>>],
              zoomed |-> FALSE]
        ELSE LET zoomed == [j \in 1..Len(seed_inputs) |-> zoom(map, j)]
                 cams == IF standardize_cam
                         THEN [j \in 1..Len(zoomed) |-> standardize(zoomed[j])]
                         ELSE zoomed
             IN  IF model.inputs = 1 /\ ~seed_input.isList
                 THEN [value |-> [type |-> "ndarray", items |-> <<cams[1]>>], zoomed |-> TRUE]
                 ELSE [value |-> [type |-> "list", items |-> cams], zoomed |-> TRUE]

NoTensor == Tensor(<<0>>, <<>>)

NoLocals ==
    [max_N |-> 0, top_k_indices |-> <<>>, penultimate_output |-> NoTensor,
     channels |-> 0, weights |-> NoTensor]

\* an exception leaves __call__ with the locals bound so far
Failed(outcome, locals, invoked) == [ret |-> outcome, locals |-> locals, invoked |-> invoked]

\* Scorecam.__call__, lines 98-200, as the outcome of the call, its local variables
\* when it ended and the collaborators it invoked
ScorecamRun(c) ==
    LET scores == get_scores_for_multiple_outputs(c.model, c.score)
        seed_inputs == get_seed_inputs_for_multiple_inputs(c.model, c.seed_input)
    IN  IF scores.status # "ok" THEN Failed(scores, NoLocals, <<>>)
        ELSE IF seed_inputs.status # "ok" THEN Failed(seed_inputs, NoLocals, <<>>)
        ELSE
        LET B == c.seed_input.batch
            penultimate_output == PenultimateOutput(c.model, c.seed_input)
            max_N == ResolveMaxN(c.max_N, penultimate_output.shape[3], c.env)
            l1 == [NoLocals EXCEPT !.penultimate_output = penultimate_output]
            i1 == <<"penultimate_model">>
        IN  IF max_N.status # "ok" THEN Failed(max_N, l1, i1)
            ELSE
            LET selected == SelectChannels(penultimate_output, max_N.value)
                l2 == [l1 EXCEPT !.max_N = max_N.value]
            IN  IF selected.status # "ok" THEN Failed(selected, l2, i1)
                ELSE
                LET top_k_indices == selected.value.top_k_indices
                    gathered == selected.value.penultimate_output
                    channels == gathered.shape[3]
                    masked_seed_inputs ==
                        Stored([j \in 1..Len(seed_inputs.value) |->
                                   MaskedSeedInput(B, top_k_indices)])
                    preds == Predict(c.model, masked_seed_inputs, channels)
                    weights == Weights(scores.value, preds, B, channels)
                    l3 == [l2 EXCEPT !.top_k_indices = top_k_indices,
                                     !.penultimate_output = gathered,
                                     !.channels = channels]
                    i3 == i1 \o <<"zoom_activation_maps", "predict">>
                IN  IF weights.status # "ok" THEN Failed(weights, l3, i3)
                    ELSE
                    LET cam == ActivationModifier(c.activation_modifier,
                                                  batch_dot(gathered, weights.value))
                        end == Finish(c.model, c.seed_input, seed_inputs.value, cam,
                                      c.expand_cam, c.standardize_cam)
                    IN  [ret     |-> Return(end.value),
                         locals  |-> [l3 EXCEPT !.weights = weights.value],
                         invoked |-> IF end.zoomed THEN i3 \o <<"zoom_cam">> ELSE i3]

----------------------------------------------------------------------------
(* The inputs of the Score-CAM engine.                                     *)

NoneN == [isNone |-> TRUE, value |-> 0]

IntN(n) == [isNone |-> FALSE, value |-> n]

MaxNArgs == {NoneN} \cup {IntN(n) : n \in -2..MaxN}

EnvUnset == [max_steps_set |-> FALSE, max_steps |-> 0]

Envs == {EnvUnset} \cup {[max_steps_set |-> TRUE, max_steps |-> n] : n \in 1..MaxStepsCap}

Model(inputs, outputs, K, predSeed) ==
    [inputs |-> inputs, outputs |-> outputs, K |-> K, predSeed |-> predSeed]

\* a seed_input argument: a single array or a list of count arrays, of batch size
\* batch, and the parameters of the activations the sub-model computes from it
SeedInput(isList, count, batch, rot, tie) ==
    [isList |-> isList, count |-> count, batch |-> batch, rot |-> rot, tie |-> tie]

PlainSeed(batch) == SeedInput(FALSE, 1, batch, [b \in 1..batch |-> b - 1], 1)

HeadScores ==
    {InactiveScore, BinaryScore(<<TRUE>>)} \cup {CategoricalScore(<<i>>) : i \in 0..(OutDim - 1)}

Call(model, env, score, seed_input, max_N, activation_modifier, expand_cam, standardize_cam) ==
    [model |-> model, env |-> env, score |-> score, seed_input |-> seed_input,
     max_N |-> max_N, activation_modifier |-> activation_modifier,
     expand_cam |-> expand_cam, standardize_cam |-> standardize_cam]

\* c is a call that differs from others in the shape of its arguments and in its options
OptionCall(c) ==
    \E inputs \in 1..MaxInputs, heads \in 1..MaxHeads, isList \in BOOLEAN,
       count \in 1..MaxInputs, batch \in 1..MaxSeedBatch, max_N \in MaxNArgs,
       modifier \in {"relu", "None"}, expand_cam \in BOOLEAN, standardize_cam \in BOOLEAN :
        c = Call(Model(inputs, 1, MaxK, <<0>>), EnvUnset,
                 [h \in 1..heads |-> CategoricalScore(<<0>>)],
                 SeedInput(isList, IF isList THEN count ELSE 1, batch,
                           [b \in 1..batch |-> b - 1], 1),
                 max_N, modifier, expand_cam, standardize_cam)

\* c is a call that differs from others in the activations, the channel count, max_N
\* and the environment
FasterCall(c) ==
    \E K \in 1..MaxK, batch \in 1..MaxSeedBatch :
        \E rot \in [1..batch -> 0..(K - 1)], tie \in 1..MaxTieDiv,
           max_N \in MaxNArgs, env \in Envs :
            c = Call(Model(1, 1, K, <<0>>), env, <<CategoricalScore(<<0>>)>>,
                     SeedInput(FALSE, 1, batch, rot, tie), max_N, "relu", TRUE, TRUE)

\* c is a call that differs from others in the output heads of the model, their
\* scores and their predictions
WeightCall(c) ==
    \E heads \in 1..MaxHeads :
        \E seed \in 0..MaxPredSeed, score \in [1..heads -> HeadScores],
           K \in 1..MaxK, batch \in 1..MaxSeedBatch, max_N \in {NoneN, IntN(1)} :
            c = Call(Model(1, heads, K, [h \in 1..heads |-> (seed + h - 1) % (MaxPredSeed + 1)]),
                     EnvUnset, score, PlainSeed(batch), max_N, "None", FALSE, FALSE)

----------------------------------------------------------------------------
(* State.                                                                  *)

VARIABLES
    scoreObj,     \* a score instance: its class and its target_values / indices
    constructed,  \* the instance as its constructor left it
    lastOutput,   \* the output of the latest call of scoreObj
    lastRet,      \* the outcome of the latest call of scoreObj
    pc,           \* position of the caller of Scorecam.__call__: "ready" or "done"
    call,         \* the model, the environment and the arguments of the Score-CAM call
    ret,          \* the outcome of the Score-CAM call
    locals,       \* the local variables of Scorecam.__call__ when it ended
    invoked       \* the collaborators Scorecam.__call__ invoked, in order

vars == <<scoreObj, constructed, lastOutput, lastRet, pc, call, ret, locals, invoked>>

scoreVars == <<scoreObj, constructed, lastOutput, lastRet>>

engineVars == <<pc, call, ret, locals, invoked>>

NoRet == [status |-> "none", value |-> <<>>]

ScoresIdle ==
    /\ scoreObj = InactiveScore
    /\ constructed = InactiveScore
    /\ lastOutput = NoTensor
    /\ lastRet = NoRet

EngineIdle ==
    /\ pc = "idle"
    /\ call = [max_N |-> NoneN]
    /\ ret = NoRet
    /\ locals = NoLocals
    /\ invoked = <<>>

----------------------------------------------------------------------------
(* The score functions called by a caller, any number of times.            *)

InitScores ==
    /\ scoreObj \in ScoreInstances
    /\ constructed = scoreObj
    /\ lastOutput = NoTensor
    /\ lastRet = NoRet
    /\ EngineIdle

Invoke(output) ==
    LET done == ScoreCall(scoreObj, output)
    IN  /\ scoreObj' = done.self
        /\ lastOutput' = output
        /\ lastRet' = done.ret
        /\ UNCHANGED <<constructed, engineVars>>

InactiveCall ==
    /\ scoreObj.cls = "InactiveScore"
    /\ \E output \in CategoricalOutputs : Invoke(output)

BinaryCall ==
    /\ scoreObj.cls = "BinaryScore"
    /\ \E output \in BinaryOutputs : Invoke(output)

CategoricalCall ==
    /\ scoreObj.cls = "CategoricalScore"
    /\ \E output \in CategoricalOutputs : Invoke(output)

NextScores == InactiveCall \/ BinaryCall \/ CategoricalCall

SpecScores == InitScores /\ [][NextScores]_vars

----------------------------------------------------------------------------
(* One call of the Score-CAM engine.  Nothing is kept from call to call,   *)
(* so a behaviour is one call on arguments drawn at the start.             *)

Init ==
    /\ ScoresIdle
    /\ pc = "ready"
    /\ \/ OptionCall(call)
       \/ FasterCall(call)
       \/ WeightCall(call)
    /\ ret = NoRet
    /\ locals = NoLocals
    /\ invoked = <<>>

ScorecamCall ==
    /\ pc = "ready"
    /\ LET run == ScorecamRun(call)
       IN  /\ ret' = run.ret
           /\ locals' = run.locals
           /\ invoked' = run.invoked
    /\ pc' = "done"
    /\ UNCHANGED <<call, scoreVars>>

Next == ScorecamCall

Spec == Init /\ [][Next]_vars

----------------------------------------------------------------------------
(* Properties of the score functions, under SpecScores.                    *)

Called == lastRet.status # "none"

BatchOf(output) == output.shape[1]

\* the target of batch element i: T[i], or T[1] when T holds a single value
TargetOf(T, i) == IF Len(T) = 1 THEN T[1] ELSE T[i]

\* C4: a BinaryScore called on an output of shape (batch,) or (batch, 1) returns one
\* score per batch element, output[i] where the target of element i is true and
\* 1 - output[i] where it is false, the target of element i being T[i], or the single
\* value of T
C4_Original ==
    (/\ Called
     /\ scoreObj.cls = "BinaryScore"
     /\ (Ndim(lastOutput) = 1 \/ (Ndim(lastOutput) = 2 /\ lastOutput.shape[2] = 1)))
    => /\ lastRet.status = "ok"
       /\ Len(lastRet.value) = BatchOf(lastOutput)
       /\ \A i \in 1..BatchOf(lastOutput) :
             lastRet.value[i] = IF TargetOf(scoreObj.target_values, i)
                                THEN lastOutput.data[i]
                                ELSE 1 - lastOutput.data[i]

\* C4, amended: the same, for a target list T that holds a single value or at least
\* one value per batch element
C4_BinaryOneScorePerBatchElement ==
    (/\ Called
     /\ scoreObj.cls = "BinaryScore"
     /\ (Ndim(lastOutput) = 1 \/ (Ndim(lastOutput) = 2 /\ lastOutput.shape[2] = 1))
     /\ (Len(scoreObj.target_values) = 1
           \/ Len(scoreObj.target_values) >= BatchOf(lastOutput)))
    => /\ lastRet.status = "ok"
       /\ Len(lastRet.value) = BatchOf(lastOutput)
       /\ \A i \in 1..BatchOf(lastOutput) :
             lastRet.value[i] = IF TargetOf(scoreObj.target_values, i)
                                THEN lastOutput.data[i]
                                ELSE 1 - lastOutput.data[i]

\* a single false target broadcast over a batch of two or more
C4_Witness ==
    /\ Called
    /\ scoreObj.cls = "BinaryScore"
    /\ scoreObj.target_values = <<FALSE>>
    /\ lastOutput.shape = <<MaxBatch, 1>>
    /\ lastRet.status = "ok"
    /\ Len(lastRet.value) = MaxBatch
    /\ lastRet.value[MaxBatch] = 1 - lastOutput.data[MaxBatch]

\* element (i, m, index) of an output read as (batch, inner, channels), i and m from 1
Element(output, i, m, index) ==
    LET channels == output.shape[Ndim(output)]
        inner == Len(output.data) \div (BatchOf(output) * channels)
    IN  output.data[(i - 1) * inner * channels + (m - 1) * channels + index + 1]

InnerOf(output) == Len(output.data) \div (BatchOf(output) * output.shape[Ndim(output)])

\* C5: a CategoricalScore called on an output of rank >= 2 whose channel count exceeds
\* all indices returns a result of shape (batch,), entry i being the mean over the
\* non-batch dimensions of output[i, ..., index_i], index_i the i-th index or the
\* single index
C5_Original ==
    (/\ Called
     /\ scoreObj.cls = "CategoricalScore"
     /\ Ndim(lastOutput) >= 2
     /\ \A k \in 1..Len(scoreObj.indices) :
           scoreObj.indices[k] < lastOutput.shape[Ndim(lastOutput)])
    => /\ lastRet.status = "ok"
       /\ Len(lastRet.value) = BatchOf(lastOutput)
       /\ \A i \in 1..BatchOf(lastOutput) :
             /\ lastRet.value[i].den = InnerOf(lastOutput)
             /\ lastRet.value[i].num =
                   SumSeq([m \in 1..InnerOf(lastOutput) |->
                              Element(lastOutput, i, m, TargetOf(scoreObj.indices, i))])

\* C5, amended: the same, for a list of non-negative indices that holds a single
\* index or exactly one index per batch element, and a batch of at least one element
C5_CategoricalMeanPerBatchElement ==
    (/\ Called
     /\ scoreObj.cls = "CategoricalScore"
     /\ Ndim(lastOutput) >= 2
     /\ \A k \in 1..Len(scoreObj.indices) :
           scoreObj.indices[k] < lastOutput.shape[Ndim(lastOutput)]
     /\ (Len(scoreObj.indices) = 1 \/ Len(scoreObj.indices) = BatchOf(lastOutput)))
    => /\ lastRet.status = "ok"
       /\ Len(lastRet.value) = BatchOf(lastOutput)
       /\ \A i \in 1..BatchOf(lastOutput) :
             /\ lastRet.value[i].den = InnerOf(lastOutput)
             /\ lastRet.value[i].num =
                   SumSeq([m \in 1..InnerOf(lastOutput) |->
                              Element(lastOutput, i, m, TargetOf(scoreObj.indices, i))])

\* one index per batch element, not all the same, on an output of rank 3
C5_Witness ==
    /\ Called
    /\ scoreObj.cls = "CategoricalScore"
    /\ Len(scoreObj.indices) = BatchOf(lastOutput)
    /\ BatchOf(lastOutput) >= 2
    /\ scoreObj.indices[1] # scoreObj.indices[2]
    /\ Ndim(lastOutput) = 3
    /\ InnerOf(lastOutput) >= 2
    /\ lastRet.status = "ok"
    /\ Len(lastRet.value) = BatchOf(lastOutput)

\* C6: a CategoricalScore called on an output of rank < 2 fails with the invalid-shape
\* error, and called on an output of rank >= 2 with an index >= the channel count it
\* fails with the invalid-index error; no score is returned in either case
C6_CategoricalRejectsRankAndIndex ==
    (Called /\ scoreObj.cls = "CategoricalScore")
    => /\ Ndim(lastOutput) < 2
          => /\ lastRet.status = "ValueError"
             /\ lastRet.value = "output ndim must be 2 or more"
       /\ (/\ Ndim(lastOutput) >= 2
           /\ \E k \in 1..Len(scoreObj.indices) :
                 scoreObj.indices[k] >= lastOutput.shape[Ndim(lastOutput)])
          => /\ lastRet.status = "ValueError"
             /\ lastRet.value = "Invalid index value"

C6_Witness ==
    /\ Called
    /\ scoreObj.cls = "CategoricalScore"
    /\ Len(scoreObj.indices) >= 2
    /\ Ndim(lastOutput) = 3
    /\ BatchOf(lastOutput) >= 2
    /\ scoreObj.indices[1] < lastOutput.shape[3]
    /\ scoreObj.indices[2] >= lastOutput.shape[3]
    /\ lastRet.status = "ValueError"

\* C10: whatever calls were made, the instance holds the target_values / indices set
\* at construction, and the latest outcome is the one the instance as constructed
\* gives for the latest output
C10_ScoreNeverMutated ==
    /\ scoreObj = constructed
    /\ Called =>
          /\ lastRet.status = ScoreCall(constructed, lastOutput).ret.status
          /\ lastRet.value = ScoreCall(constructed, lastOutput).ret.value

C10_Witness ==
    /\ Called
    /\ scoreObj.cls = "BinaryScore"
    /\ Len(scoreObj.target_values) = 1
    /\ BatchOf(lastOutput) = MaxBatch
    /\ lastRet.status = "ok"
    /\ Len(lastRet.value) = MaxBatch

----------------------------------------------------------------------------
(* Properties of the Score-CAM engine, under Spec.                         *)

Done == pc = "done"

\* one score per output of the model and one seed input per input of the model
ValidArguments ==
    /\ Len(call.score) = call.model.outputs
    /\ call.seed_input.count = call.model.inputs

Invoked(name) == \E k \in 1..Len(invoked) : invoked[k] = name

SameOutcome(a, b) == a.status = b.status /\ a.value = b.value

\* C1: a call with max_N = 0 and otherwise valid arguments ends in the ValueError
\* about max_N: it returns no CAM and never invokes the full model's predict
C1_MaxNZeroFails ==
    (Done /\ ValidArguments /\ ~call.max_N.isNone /\ call.max_N.value = 0)
    => /\ ret.status = "ValueError"
       /\ ret.value = "max_N can't be set 0, must be None, -1 or 1 or more."
       /\ ~Invoked("predict")

C1_Witness ==
    /\ Done
    /\ ValidArguments
    /\ ~call.max_N.isNone
    /\ call.max_N.value = 0
    /\ call.seed_input.batch = MaxSeedBatch
    /\ ret.status = "ValueError"
    /\ Invoked("penultimate_model")

\* the call that differs from the current one only in max_N: -1 for None, None for -1
MaxNSibling == [call EXCEPT !.max_N = IF call.max_N.isNone THEN IntN(-1) ELSE NoneN]

\* C2: a call with max_N = None and the call with max_N = -1 and the same other
\* arguments resolve to the same channel cap, select the same channels and end in
\* the same outcome
C2_NoneSameAsMinusOne ==
    (Done /\ (call.max_N.isNone \/ call.max_N.value = -1))
    => LET sibling == ScorecamRun(MaxNSibling)
       IN  /\ sibling.locals.max_N = locals.max_N
           /\ sibling.locals.top_k_indices = locals.top_k_indices
           /\ sibling.locals = locals
           /\ SameOutcome(sibling.ret, ret)

\* a call with max_N = -1 that the environment's cap puts in Faster mode
C2_Witness ==
    /\ Done
    /\ ~call.max_N.isNone
    /\ call.max_N.value = -1
    /\ ret.status = "ok"
    /\ locals.max_N < call.model.K
    /\ locals.channels >= 2

\* C3: with expand_cam the call returns a single map exactly when the model has one
\* input and seed_input is not a list, and otherwise a list of one map per seed
\* input, each zoomed to its seed input; without expand_cam it returns one map that
\* was never zoomed
C3_ReturnShape ==
    (Done /\ ret.status = "ok")
    => IF call.expand_cam
       THEN /\ ret.value.type = "ndarray"
                 <=> (call.model.inputs = 1 /\ ~call.seed_input.isList)
            /\ ret.value.type = "ndarray"
                 => /\ Len(ret.value.items) = 1
                    /\ ret.value.items[1].zoomed_to = 1
            /\ ret.value.type # "ndarray"
                 => /\ ret.value.type = "list"
                    /\ Len(ret.value.items) = call.seed_input.count
                    /\ \A j \in 1..call.seed_input.count : ret.value.items[j].zoomed_to = j
       ELSE /\ ret.value.type = "ndarray"
            /\ Len(ret.value.items) = 1
            /\ ret.value.items[1].zoomed_to = 0
            /\ ~Invoked("zoom_cam")

\* a list seed_input of length 1 for a model of one input
C3_Witness ==
    /\ Done
    /\ ret.status = "ok"
    /\ call.expand_cam
    /\ call.model.inputs = 1
    /\ call.seed_input.isList
    /\ call.seed_input.count = 1
    /\ ret.value.type = "list"
    /\ Len(ret.value.items) = 1

InactiveHeads == {h \in 1..Len(call.score) : call.score[h].cls = "InactiveScore"}

\* the predictions of every head for the masked copies the call made
PredsOfCall ==
    Predict(call.model,
            [j \in 1..call.seed_input.count |->
                MaskedSeedInput(call.seed_input.batch, locals.top_k_indices)],
            locals.channels)

\* what each head alone contributes to the weights
Contributions ==
    LET preds == PredsOfCall
    IN  Stored([h \in 1..Len(call.score) |->
                   HeadWeights(call.score[h], preds[h], call.seed_input.batch,
                               locals.channels).value.data])

RECURSIVE SumOver(_, _, _)
SumOver(contributions, S, k) ==
    IF S = {} THEN 0
    ELSE LET h == CHOOSE x \in S : TRUE
         IN  contributions[h][k] + SumOver(contributions, S \ {h}, k)

\* C7: in a model of several outputs, a head scored with InactiveScore adds nothing
\* to any weight: every weight is the sum of what the other heads contribute, and the
\* call returns the same whatever that head predicts
C7_InactiveHeadAddsNothing ==
    (Done /\ ret.status = "ok" /\ call.model.outputs >= 2 /\ InactiveHeads # {})
    => /\ LET contributions == Contributions
          IN  \A k \in 1..Len(locals.weights.data) :
                 locals.weights.data[k]
                   = SumOver(contributions, (1..Len(call.score)) \ InactiveHeads, k)
       /\ \A h \in InactiveHeads : \A seed \in 0..MaxPredSeed :
             LET other == ScorecamRun([call EXCEPT !.model.predSeed[h] = seed])
             IN  /\ SameOutcome(other.ret, ret)
                 /\ other.locals.weights = locals.weights

C7_Witness ==
    /\ Done
    /\ ret.status = "ok"
    /\ call.model.outputs = 2
    /\ call.score[1].cls = "CategoricalScore"
    /\ call.score[2].cls = "InactiveScore"
    /\ call.seed_input.batch = MaxSeedBatch
    /\ locals.channels >= 2
    /\ \A k \in 1..Len(locals.weights.data) : locals.weights.data[k] > 0

\* the score head h gives the full model's prediction for the copy of seed input b
\* masked by the normalized map of channel ch of batch element b
ScoreOfMasked(h, b, ch) ==
    LET row == [seed |-> b, mask |-> [batch |-> b, channel |-> ch]]
        p == Tensor(<<1, OutDim>>, ModelPredict(call.model, h, row))
        v == ScoreCall(call.score[h], p).ret.value[1]
    IN  v.num \div v.den

\* C8: with scores that return one scalar per batch element, the weight applied to
\* channel c of batch element b is the sum over the heads of the head's score of the
\* prediction for seed input b masked by the map of channel c of batch element b
\* (a weight is kept in units of 1/OutDim)
C8_WeightsMatchBatchAndChannel ==
    (/\ Done
     /\ ret.status = "ok"
     /\ \A h \in 1..Len(call.score) : call.score[h].cls = "CategoricalScore")
    => /\ locals.weights.shape = <<call.seed_input.batch, locals.channels>>
       /\ \A b \in 1..call.seed_input.batch : \A c \in 1..locals.channels :
             locals.weights.data[(b - 1) * locals.channels + c]
               = OutDim * SumSeq([h \in 1..Len(call.score) |->
                                     ScoreOfMasked(h, b, locals.top_k_indices[c])])

FasterMode == locals.max_N < call.model.K

NoDuplicates(s) == \A i, j \in 1..Len(s) : s[i] = s[j] => i = j

\* the tensor that goes on holds, as its channel j, channel top_k_indices[j] of the
\* sub-model's output
GatheredFrom(original) ==
    /\ locals.penultimate_output.shape
         = <<original.shape[1], original.shape[2], Len(locals.top_k_indices)>>
    /\ \A b \in 1..original.shape[1] : \A p \in 1..original.shape[2] :
          \A j \in 1..Len(locals.top_k_indices) :
             At3(locals.penultimate_output, b, p, j)
               = At3(original, b, p, locals.top_k_indices[j] + 1)

ChannelsWellFormed ==
    /\ NoDuplicates(locals.top_k_indices)
    /\ \A j \in 1..Len(locals.top_k_indices) :
          locals.top_k_indices[j] \in 0..(call.model.K - 1)
    /\ locals.channels = Len(locals.top_k_indices)
    /\ GatheredFrom(PenultimateOutput(call.model, call.seed_input))

AllChannelsInOrder ==
    /\ locals.top_k_indices = [c \in 1..call.model.K |-> c - 1]
    /\ locals.penultimate_output = PenultimateOutput(call.model, call.seed_input)

\* C9: in Faster mode the channels gathered hold no duplicate, only indices in
\* 0..K-1, and at most max_N channels; otherwise all K channels are kept in order
C9_Original ==
    (Done /\ ret.status = "ok")
    => IF FasterMode
       THEN ChannelsWellFormed /\ locals.channels <= locals.max_N
       ELSE AllChannelsInOrder

\* C9, amended: in Faster mode the channels gathered hold no duplicate, only indices
\* in 0..K-1, and at least max_N and at most min(K, B * max_N) channels, so exactly
\* max_N for a batch of one; otherwise all K channels are kept in order
C9_ChannelsGathered ==
    (Done /\ ret.status = "ok")
    => IF FasterMode
       THEN /\ ChannelsWellFormed
            /\ locals.channels >= locals.max_N
            /\ locals.channels <= Min(call.model.K, call.seed_input.batch * locals.max_N)
            /\ call.seed_input.batch = 1 => locals.channels = locals.max_N
       ELSE AllChannelsInOrder

\* Faster mode on a batch of two whose elements share no more than part of their
\* highest-variance channels
C9_Witness ==
    /\ Done
    /\ ret.status = "ok"
    /\ FasterMode
    /\ call.seed_input.batch >= 2
    /\ locals.max_N >= 2
    /\ locals.channels > locals.max_N

====
